---- MODULE Spec2Model ----
(***************************************************************************)
(* Model of the indentation-marker view plugin (src/src/index.ts):        *)
(* the pattern composer makeBackgroundCSS / createGradient, and the       *)
(* IndentMarkersClass plugin (constructor, update, generate with its      *)
(* read and write callbacks) running inside the host's measure loop.      *)
(***************************************************************************)
EXTENDS Integers, Sequences, FiniteSets, TLC

VARIABLES
    state,              \* view.state: the host's current EditorState
    viewport,           \* the view's visible line range <<first, last>>
    focused,            \* whether the editor view has the focus
    unitWidth,          \* IndentMarkersClass.unitWidth
    currentLineNumber,  \* IndentMarkersClass.currentLineNumber
    decorations,        \* IndentMarkersClass.decorations
    cycles,             \* one record per generate() call: the closure of its request
    measureRequests,    \* the view's queue of measure requests not yet taken
    measuring,          \* the requests the running measure pass has taken
    phase,              \* position of the host's measure loop
    committed,          \* the requests whose write callback ran, in that order
    nUpdates,           \* number of update() calls so far
    entryIn,            \* composer harness: the arguments of makeBackgroundCSS
    cssOut              \* composer harness: its result

vars == << state, viewport, focused, unitWidth, currentLineNumber, decorations,
           cycles, measureRequests, measuring, phase, committed,
           nUpdates, entryIn, cssOut >>

pluginVars == << state, viewport, focused, unitWidth, currentLineNumber,
                 decorations, cycles, measureRequests, measuring, phase,
                 committed, nUpdates >>

\* ---------------------------------------------------------------- bounds
MaxUpdates == 2
MaxLayoutUpdates == 1
MaxLevel == 4

\* coordsAtPos could not resolve the position (it returned null).
NULL == [ resolved |-> FALSE ]

\* ------------------------------------------------- the pattern composer
NormalColor == "--indent-marker-bg-color"
ActiveColor == "--indent-marker-active-bg-color"

\* One gradient layer: `columns` stripes of `thickness` px, the first at
\* startOffset * indentWidth, coloured by markerCssProperty.
createGradient(markerCssProperty, thickness, indentWidth, startOffset, columns) ==
    [ color |-> markerCssProperty, thickness |-> thickness,
      indentWidth |-> indentWidth, startOffset |-> startOffset,
      columns |-> columns ]

\* makeBackgroundCSS with the trailing normal layer starting one column early.
makeBackgroundCSS_overlap(entry, indentWidth, hideFirstIndent, thickness) ==
    LET level == entry.level
        startAt == IF hideFirstIndent THEN 1 ELSE 0
    IN  IF hideFirstIndent /\ level = 0 THEN << >>
        ELSE IF "active" \in DOMAIN entry
        THEN LET active == entry.active
                 markersBeforeActive == active - startAt - 1
             IN  (IF markersBeforeActive > 0
                  THEN << createGradient(NormalColor, thickness, indentWidth,
                                         startAt, markersBeforeActive) >>
                  ELSE << >>)
                 \o << createGradient(ActiveColor, thickness, indentWidth,
                                      active - 1, 1) >>
                 \o (IF active # level
                     THEN << createGradient(NormalColor, thickness, indentWidth,
                                            active - 1, level - active + 1) >>
                     ELSE << >>)
        ELSE << createGradient(NormalColor, thickness, indentWidth,
                               startAt, level - startAt) >>

makeBackgroundCSS(entry, indentWidth, hideFirstIndent, thickness) ==
    LET level == entry.level
        startAt == IF hideFirstIndent THEN 1 ELSE 0
    IN  IF hideFirstIndent /\ level = 0 THEN << >>
        ELSE IF "active" \in DOMAIN entry
        THEN LET active == entry.active
                 markersBeforeActive == active - startAt - 1
             IN  (IF markersBeforeActive > 0
                  THEN << createGradient(NormalColor, thickness, indentWidth,
                                         startAt, markersBeforeActive) >>
                  ELSE << >>)
                 \o << createGradient(ActiveColor, thickness, indentWidth,
                                      active - 1, 1) >>
                 \o (IF active # level
                     THEN << createGradient(NormalColor, thickness, indentWidth,
                                            active, level - active) >>
                     ELSE << >>)
        ELSE << createGradient(NormalColor, thickness, indentWidth,
                               startAt, level - startAt) >>

\* ------------------------------------------------------ the host's state
\* Line texts are sequences of characters: "s" a space, "t" a tab, "x" code.
Space2 == << "s", "s" >>
Space4 == << "s", "s", "s", "s" >>
Tab1 == << "t" >>
IndentUnits == { Space2, Space4, Tab1 }

DocA == << << "x" >>, << "s", "s", "x" >>, << "s", "s", "s", "s", "x" >> >>
DocB == << << "x" >>, << "t", "x" >>, << "s", "s", "x" >> >>
Docs == { DocA, DocB }

Viewports == { << 1, 3 >>, << 2, 3 >> }

ColWidth(c) == IF c = "t" THEN 4 ELSE 1

RECURSIVE CountColumn(_)
CountColumn(str) ==
    IF str = << >> THEN 0 ELSE ColWidth(Head(str)) + CountColumn(Tail(str))

RECURSIVE LeadingWhitespace(_)
LeadingWhitespace(text) ==
    IF text = << >> \/ Head(text) = "x" THEN << >>
    ELSE << Head(text) >> \o LeadingWhitespace(Tail(text))

startsWith(text, prefix) ==
    /\ Len(prefix) <= Len(text)
    /\ SubSeq(text, 1, Len(prefix)) = prefix

getIndentUnit(s) == CountColumn(s.indentUnit)

getCurrentLine(s) == [ number |-> s.cursor ]

RECURSIVE LineFrom(_, _)
LineFrom(doc, n) ==
    IF n = 1 THEN 0 ELSE LineFrom(doc, n - 1) + Len(doc[n - 1]) + 1

getVisibleLines(vp, s) ==
    [ i \in 1 .. (vp[2] - vp[1] + 1) |->
        [ number |-> vp[1] + i - 1,
          from |-> LineFrom(s.doc, vp[1] + i - 1),
          text |-> s.doc[vp[1] + i - 1] ] ]

\* ------------------------------------------------------ the level scanner
LevelOf(text, width) == CountColumn(LeadingWhitespace(text)) \div width

ActiveRange(doc, width, cursor) ==
    LET L == LevelOf(doc[cursor], width)
    IN  { n \in 1 .. Len(doc) :
            \A m \in 1 .. Len(doc) :
                ((m >= n /\ m <= cursor) \/ (m <= n /\ m >= cursor))
                    => LevelOf(doc[m], width) >= L }

IndentationMap(lines, s, width) ==
    LET L == LevelOf(s.doc[s.cursor], width)
        range == IF s.highlightActiveBlock /\ L >= 1
                 THEN ActiveRange(s.doc, width, s.cursor) ELSE { }
    IN  [ n \in { lines[i].number : i \in 1 .. Len(lines) } |->
            IF n \in range
            THEN [ level |-> LevelOf(s.doc[n], width), active |-> L ]
            ELSE [ level |-> LevelOf(s.doc[n], width) ] ]

\* -------------------------------------------------------- the plugin
EditorStates ==
    [ doc : Docs, indentUnit : IndentUnits, cursor : 1 .. 3,
      highlightActiveBlock : BOOLEAN, hideFirstIndent : BOOLEAN,
      thickness : { 1, 2 } ]

\* The state the development page creates the view with: two-space indent
\* unit, default configuration, selection at the start of the document.
InitialStates ==
    { s \in EditorStates :
        /\ s.indentUnit = Space2
        /\ s.cursor = 1
        /\ s.highlightActiveBlock
        /\ ~s.hideFirstIndent
        /\ s.thickness = 1 }

\* A host transaction changes at most one aspect of the visible state.
Transactions(s, vp) ==
    { t \in EditorStates \X Viewports :
        Cardinality({ f \in DOMAIN s : t[1][f] # s[f] })
            + (IF t[2] # vp THEN 1 ELSE 0) <= 1 }

\* generate(state), up to requestMeasure: the closure of the new request.
generate(s, vp, width) ==
    LET lines == getVisibleLines(vp, s)
    IN  [ state |-> s,
          lines |-> lines,
          hideFirstIndent |-> s.hideFirstIndent,
          thickness |-> s.thickness,
          map |-> IndentationMap(lines, s, width),
          builder |-> << >>,
          pc |-> "pending",
          indentUnitString |-> << >>,
          coords |-> << >> ]

\* What is left of a request once a later one has been written: its closure
\* is unreachable.
Released == [ pc |-> "committed" ]

\* The outcomes of coordsAtPos(line.from + indentUnitString.length) and
\* coordsAtPos(line.from) for one line: a left coordinate, or null.
CoordOutcomes ==
    [ after : { NULL, [ resolved |-> TRUE, left |-> 20 ] },
      start : { NULL, [ resolved |-> TRUE, left |-> 4 ] } ]

Resolved ==
    [ after |-> [ resolved |-> TRUE, left |-> 20 ],
      start |-> [ resolved |-> TRUE, left |-> 4 ] ]

Unresolved == [ after |-> NULL, start |-> NULL ]

\* The layouts a measure pass can meet on the lines `ns`.  Coarse: the
\* layout is ready (every position resolves) or it is not (none does).
\* Fine: each position resolves or not on its own.
Layouts(ns, fine) ==
    IF fine THEN [ ns -> CoordOutcomes ]
    ELSE { [ n \in ns |-> Resolved ], [ n \in ns |-> Unresolved ] }

Left(c) == IF c.resolved THEN c.left ELSE 0

MeasuredWidth(c) == Left(c.after) - Left(c.start)

\* The read callback without the level test.
Measured_noLevelTest(c, indentUnitString) ==
    SelectSeq(c.lines,
              LAMBDA line :
                  /\ line.number \in DOMAIN c.map
                  /\ startsWith(line.text, indentUnitString))

\* The read callback without the startsWith test.
Measured_noPrefixTest(c, indentUnitString) ==
    SelectSeq(c.lines,
              LAMBDA line :
                  /\ line.number \in DOMAIN c.map
                  /\ c.map[line.number].level # 0)

\* The lines the read callback does not skip.
Measured(c, indentUnitString) ==
    SelectSeq(c.lines,
              LAMBDA line :
                  /\ line.number \in DOMAIN c.map
                  /\ c.map[line.number].level # 0
                  /\ startsWith(line.text, indentUnitString))

addBackground(line, backgrounds) ==
    [ from |-> line.from, number |-> line.number, style |-> backgrounds ]

\* The read callback leaving out a line when one of its coordinates does
\* not resolve.
read_skipUnresolved(c, indentUnitString, coords) ==
    LET sel == SelectSeq(Measured(c, indentUnitString),
                         LAMBDA line :
                             /\ coords[line.number].after.resolved
                             /\ coords[line.number].start.resolved)
    IN  [ c EXCEPT
            !.builder =
                [ i \in 1 .. Len(sel) |->
                    addBackground(sel[i],
                        makeBackgroundCSS(c.map[sel[i].number],
                                          MeasuredWidth(coords[sel[i].number]),
                                          c.hideFirstIndent, c.thickness)) ],
            !.pc = "read",
            !.indentUnitString = indentUnitString,
            !.coords = coords ]

\* The read callback of a request, under the layout `coords`.
read(c, indentUnitString, coords) ==
    LET sel == Measured(c, indentUnitString)
    IN  [ c EXCEPT
            !.builder =
                [ i \in 1 .. Len(sel) |->
                    addBackground(sel[i],
                        makeBackgroundCSS(c.map[sel[i].number],
                                          MeasuredWidth(coords[sel[i].number]),
                                          c.hideFirstIndent, c.thickness)) ],
            !.pc = "read",
            !.indentUnitString = indentUnitString,
            !.coords = coords ]

\* requestMeasure with a key: the request replaces the queued one.
requestMeasure_keyed(queue, id) == << id >>

\* view.requestMeasure(request) with no key: the request joins the queue.
requestMeasure(queue, id) == Append(queue, id)

\* update without a guard: every update regenerates.
regenerate_always(docChanged, viewportChanged, unitWidthChanged, activeBlockUpdateRequired) ==
    TRUE

\* The guard of update without the viewport test.
regenerate_noViewport(docChanged, viewportChanged, unitWidthChanged, activeBlockUpdateRequired) ==
    \/ docChanged
    \/ unitWidthChanged
    \/ activeBlockUpdateRequired

\* The guard of update: whether the pipeline must run again.
regenerate(docChanged, viewportChanged, unitWidthChanged, activeBlockUpdateRequired) ==
    \/ docChanged
    \/ viewportChanged
    \/ unitWidthChanged
    \/ activeBlockUpdateRequired

Init ==
    /\ state \in InitialStates
    /\ viewport = << 1, 3 >>
    /\ focused = FALSE
    /\ unitWidth = getIndentUnit(state)
    /\ currentLineNumber = getCurrentLine(state).number
    /\ decorations = << >>
    /\ cycles = << generate(state, viewport, unitWidth) >>
    /\ measureRequests = requestMeasure(<< >>, 1)
    /\ measuring = << >>
    /\ phase = "idle"
    /\ committed = << >>
    /\ nUpdates = 0
    /\ entryIn = << >>
    /\ cssOut = << >>

\* update advancing the memoized cursor line only while highlightActiveBlock
\* is enabled.
update_memoOnlyWhenHighlighting(newState, newViewport) ==
    LET docChanged == newState.doc # state.doc
        viewportChanged == newViewport # viewport
        width == getIndentUnit(newState)
        unitWidthChanged == width # unitWidth
        lineNumber == getCurrentLine(newState).number
        lineNumberChanged == lineNumber # currentLineNumber
        activeBlockUpdateRequired ==
            newState.highlightActiveBlock /\ lineNumberChanged
    IN  /\ state' = newState
        /\ viewport' = newViewport
        /\ unitWidth' = IF unitWidthChanged THEN width ELSE unitWidth
        /\ currentLineNumber' = IF newState.highlightActiveBlock
                                THEN lineNumber ELSE currentLineNumber
        /\ IF regenerate(docChanged, viewportChanged, unitWidthChanged,
                         activeBlockUpdateRequired)
           THEN /\ cycles' = Append(cycles,
                                    generate(newState, newViewport, unitWidth'))
                /\ measureRequests' = requestMeasure(measureRequests, Len(cycles) + 1)
           ELSE UNCHANGED << cycles, measureRequests >>
        /\ nUpdates' = nUpdates + 1
        /\ UNCHANGED << focused, decorations, measuring, phase, committed,
                        entryIn, cssOut >>

\* update clearing the decoration set when it regenerates.
update_clearsDecorations(newState, newViewport) ==
    LET docChanged == newState.doc # state.doc
        viewportChanged == newViewport # viewport
        width == getIndentUnit(newState)
        unitWidthChanged == width # unitWidth
        lineNumber == getCurrentLine(newState).number
        lineNumberChanged == lineNumber # currentLineNumber
        activeBlockUpdateRequired ==
            newState.highlightActiveBlock /\ lineNumberChanged
    IN  /\ state' = newState
        /\ viewport' = newViewport
        /\ unitWidth' = IF unitWidthChanged THEN width ELSE unitWidth
        /\ currentLineNumber' = lineNumber
        /\ IF regenerate(docChanged, viewportChanged, unitWidthChanged,
                         activeBlockUpdateRequired)
           THEN /\ cycles' = Append(cycles,
                                    generate(newState, newViewport, unitWidth'))
                /\ measureRequests' = requestMeasure(measureRequests, Len(cycles) + 1)
                /\ decorations' = << >>
           ELSE UNCHANGED << cycles, measureRequests, decorations >>
        /\ nUpdates' = nUpdates + 1
        /\ UNCHANGED << focused, measuring, phase, committed, entryIn, cssOut >>

\* update(update): the host has installed update.state before it calls the
\* plugin.
update(newState, newViewport) ==
    LET docChanged == newState.doc # state.doc
        viewportChanged == newViewport # viewport
        width == getIndentUnit(newState)
        unitWidthChanged == width # unitWidth
        lineNumber == getCurrentLine(newState).number
        lineNumberChanged == lineNumber # currentLineNumber
        activeBlockUpdateRequired ==
            newState.highlightActiveBlock /\ lineNumberChanged
    IN  /\ state' = newState
        /\ viewport' = newViewport
        /\ unitWidth' = IF unitWidthChanged THEN width ELSE unitWidth
        /\ currentLineNumber' = lineNumber
        /\ IF regenerate(docChanged, viewportChanged, unitWidthChanged,
                         activeBlockUpdateRequired)
           THEN /\ cycles' = Append(cycles,
                                    generate(newState, newViewport, unitWidth'))
                /\ measureRequests' = requestMeasure(measureRequests, Len(cycles) + 1)
           ELSE UNCHANGED << cycles, measureRequests >>
        /\ nUpdates' = nUpdates + 1
        /\ UNCHANGED << focused, decorations, measuring, phase, committed,
                        entryIn, cssOut >>

\* A transaction dispatched to the view while no measure pass is running.
Dispatch(max) ==
    /\ phase = "idle"
    /\ nUpdates < max
    /\ \E t \in Transactions(state, viewport) : update(t[1], t[2])

\* The update the measure pass itself gives the plugins between its reads
\* and its writes: geometry only, same state and viewport.
MeasureUpdate(max) ==
    /\ phase = "write"
    /\ \A i \in 1 .. Len(measuring) : cycles[measuring[i]].pc = "read"
    /\ nUpdates < max
    /\ update(state, viewport)

\* The measure pass takes the requests queued so far.
MeasureStart ==
    /\ phase = "idle"
    /\ measureRequests # << >>
    /\ measuring' = measureRequests
    /\ measureRequests' = << >>
    /\ phase' = "read"
    /\ UNCHANGED << state, viewport, focused, unitWidth, currentLineNumber,
                    decorations, cycles, committed, nUpdates, entryIn, cssOut >>

NextWith(pc) ==
    CHOOSE i \in 1 .. Len(measuring) :
        /\ cycles[measuring[i]].pc = pc
        /\ \A j \in 1 .. (i - 1) : cycles[measuring[j]].pc # pc

HasWith(pc) == \E i \in 1 .. Len(measuring) : cycles[measuring[i]].pc = pc

\* The measure pass runs the read callback of the next request it took.
Read(fine) ==
    /\ phase = "read"
    /\ HasWith("pending")
    /\ LET id == measuring[NextWith("pending")]
           c == cycles[id]
           indentUnitString == state.indentUnit
           sel == Measured(c, indentUnitString)
       IN  \E coords \in Layouts({ sel[i].number : i \in 1 .. Len(sel) }, fine) :
               /\ cycles' = [ cycles EXCEPT ![id] = read(c, indentUnitString, coords) ]
               /\ phase' = IF \A i \in 1 .. Len(measuring) :
                                 cycles'[measuring[i]].pc = "read"
                           THEN "write" ELSE "read"
    /\ UNCHANGED << state, viewport, focused, unitWidth, currentLineNumber,
                    decorations, measureRequests, measuring, committed,
                    nUpdates, entryIn, cssOut >>

\* The write callback with the builder kept in a field that every generate
\* call overwrites: it installs the latest request's builder.
Write_sharedBuilder ==
    /\ phase = "write"
    /\ HasWith("read")
    /\ LET id == measuring[NextWith("read")]
       IN  /\ decorations' = cycles[Len(cycles)].builder
           /\ focused' = TRUE
           /\ cycles' = [ j \in 1 .. Len(cycles) |->
                             IF j = id THEN [ cycles[j] EXCEPT !.pc = "committed" ]
                             ELSE IF cycles[j].pc = "committed" THEN Released
                             ELSE cycles[j] ]
           /\ committed' = Append(committed, id)
           /\ IF \A i \in 1 .. Len(measuring) : cycles'[measuring[i]].pc = "committed"
              THEN phase' = "idle" /\ measuring' = << >>
              ELSE UNCHANGED << phase, measuring >>
    /\ UNCHANGED << state, viewport, unitWidth, currentLineNumber,
                    measureRequests, nUpdates, entryIn, cssOut >>

\* The measure pass runs the write callback of the next request it read.
Write ==
    /\ phase = "write"
    /\ HasWith("read")
    /\ LET id == measuring[NextWith("read")]
       IN  /\ decorations' = cycles[id].builder
           /\ focused' = TRUE
           /\ cycles' = [ j \in 1 .. Len(cycles) |->
                             IF j = id THEN [ cycles[j] EXCEPT !.pc = "committed" ]
                             ELSE IF cycles[j].pc = "committed" THEN Released
                             ELSE cycles[j] ]
           /\ committed' = Append(committed, id)
           /\ IF \A i \in 1 .. Len(measuring) : cycles'[measuring[i]].pc = "committed"
              THEN phase' = "idle" /\ measuring' = << >>
              ELSE UNCHANGED << phase, measuring >>
    /\ UNCHANGED << state, viewport, unitWidth, currentLineNumber,
                    measureRequests, nUpdates, entryIn, cssOut >>

Next ==
    \/ Dispatch(MaxUpdates)
    \/ MeasureUpdate(MaxUpdates)
    \/ MeasureStart
    \/ Read(FALSE)
    \/ Write

Spec == Init /\ [][Next]_vars

\* The same plugin with every combination of resolved and unresolved
\* coordinates, over shorter runs.
NextLayout ==
    \/ Dispatch(MaxLayoutUpdates)
    \/ MeasureUpdate(MaxLayoutUpdates)
    \/ MeasureStart
    \/ Read(TRUE)
    \/ Write

SpecLayout == Init /\ [][NextLayout]_vars

\* ------------------------------------------- the pattern composer alone
\* Every descriptor up to MaxLevel: active absent, or in 1 .. level.
Descriptors ==
    { [ level |-> l ] : l \in 0 .. MaxLevel }
        \cup { [ level |-> l, active |-> a ] : l \in 1 .. MaxLevel, a \in 1 .. MaxLevel }

Entries == { e \in Descriptors : "active" \in DOMAIN e => e.active <= e.level }

ComposerInputs ==
    [ entry : Entries, indentWidth : { 0, 16 }, hideFirstIndent : BOOLEAN,
      thickness : { 1, 2 } ]

\* The plugin is not constructed; makeBackgroundCSS is applied to one input.
InitCSS ==
    /\ entryIn \in ComposerInputs
    /\ cssOut = [ done |-> FALSE ]
    /\ state = CHOOSE s \in InitialStates : s.doc = DocA
    /\ viewport = << 1, 3 >>
    /\ focused = FALSE
    /\ unitWidth = getIndentUnit(state)
    /\ currentLineNumber = getCurrentLine(state).number
    /\ decorations = << >>
    /\ cycles = << >>
    /\ measureRequests = << >>
    /\ measuring = << >>
    /\ phase = "idle"
    /\ committed = << >>
    /\ nUpdates = 0

Compose ==
    /\ ~cssOut.done
    /\ cssOut' = [ done |-> TRUE,
                   css |-> makeBackgroundCSS(entryIn.entry, entryIn.indentWidth,
                                             entryIn.hideFirstIndent,
                                             entryIn.thickness) ]
    /\ UNCHANGED << entryIn, pluginVars >>

NextCSS == Compose

SpecCSS == InitCSS /\ [][NextCSS]_vars

\* The columns a layer draws.
Columns(layer) == layer.startOffset .. (layer.startOffset + layer.columns - 1)

StartAt == IF entryIn.hideFirstIndent THEN 1 ELSE 0

\* C2: the layers makeBackgroundCSS produces cover pairwise disjoint column
\* ranges whose union is exactly the columns startAt .. level - 1, for every
\* descriptor and both values of hideFirstIndent.
C2_LayersPartitionColumns ==
    cssOut.done =>
        /\ \A i, j \in DOMAIN cssOut.css :
               i # j => Columns(cssOut.css[i]) \cap Columns(cssOut.css[j]) = { }
        /\ UNION { Columns(cssOut.css[i]) : i \in DOMAIN cssOut.css }
               = StartAt .. (entryIn.entry.level - 1)

\* C3: with an active marker, exactly one column, active - 1, is drawn in
\* the active color, every other drawn column is drawn in the normal color,
\* and no normal layer covers the active column.
C3_ActiveColumnDrawnOnce ==
    (cssOut.done /\ "active" \in DOMAIN entryIn.entry) =>
        LET css == cssOut.css
            activeLayers == { i \in DOMAIN css : css[i].color = ActiveColor }
        IN  /\ Cardinality(activeLayers) = 1
            /\ \A i \in activeLayers : Columns(css[i]) = { entryIn.entry.active - 1 }
            /\ \A i \in DOMAIN css \ activeLayers :
                   /\ css[i].color = NormalColor
                   /\ (entryIn.entry.active - 1) \notin Columns(css[i])

\* A descriptor whose active marker has normal markers on both sides has
\* been composed into three layers.
C3_Witness ==
    /\ cssOut.done
    /\ "active" \in DOMAIN entryIn.entry
    /\ entryIn.entry.active > 1
    /\ entryIn.entry.active < entryIn.entry.level
    /\ Len(cssOut.css) = 3

\* ------------------------------------------------ the scheduler's claims
\* The step is a call of update.
IsUpdate == nUpdates' = nUpdates + 1

\* The step is the read callback of request i.
IsReadOf(i) == cycles[i].pc = "pending" /\ cycles'[i].pc = "read"

IsRead == \E i \in DOMAIN cycles : IsReadOf(i)

\* The step is a write callback.
IsWrite == Len(committed') = Len(committed) + 1

\* C1: update runs generate (one new request joins the queue) if and only
\* if the document changed, the viewport changed, the indent-unit width
\* differs from the memoized width, or highlightActiveBlock is enabled and
\* the cursor line differs from the memoized one; otherwise it requests no
\* measure and leaves the decoration set unchanged.
C1_RegeneratesIffTriggered ==
    [][ IsUpdate =>
          LET triggered ==
                  \/ state'.doc # state.doc
                  \/ viewport' # viewport
                  \/ getIndentUnit(state') # unitWidth
                  \/ (state'.highlightActiveBlock
                          /\ getCurrentLine(state').number # currentLineNumber)
          IN  IF triggered
              THEN /\ Len(cycles') = Len(cycles) + 1
                   /\ measureRequests' = Append(measureRequests, Len(cycles'))
                   /\ cycles'[Len(cycles')].pc = "pending"
                   /\ cycles'[Len(cycles')].state = state'
              ELSE /\ cycles' = cycles
                   /\ measureRequests' = measureRequests
                   /\ decorations' = decorations ]_vars

\* Two updates have run, only one of which regenerated, and both cycles
\* have committed.
C1_Witness ==
    /\ nUpdates = 2
    /\ Len(cycles) = 2
    /\ committed = << 1, 2 >>
    /\ decorations # << >>
    /\ measureRequests = << >>

\* The request's closure still exists (no later request has been written).
Live(i) == "state" \in DOMAIN cycles[i]

\* The decoration set the read callback of request c built, recomputed from
\* what that callback itself saw.
OwnBuilder(c) == read(c, c.indentUnitString, c.coords).builder

\* C4: a commit installs the whole decoration set built by the measure
\* phase of its own cycle, also when later cycles are already pending;
\* cycles commit one at a time in the order they were triggered, the
\* decoration set changes in no other step, and once every cycle has
\* committed the decoration set is the one the latest cycle built.
C4_WholeCommitsInTriggerOrder ==
    [][ /\ IsWrite =>
              LET id == committed'[Len(committed')]
              IN  /\ cycles[id].pc = "read"
                  /\ decorations' = OwnBuilder(cycles[id])
                  /\ \A j \in 1 .. Len(cycles) :
                         j < id <=> cycles[j].pc = "committed"
        /\ ~IsWrite => decorations' = decorations
        /\ Len(committed') = Len(cycles') =>
              /\ committed'[Len(committed')] = Len(cycles')
              /\ decorations' = OwnBuilder(cycles'[Len(cycles')]) ]_vars

\* Cycle 2 was triggered while cycle 1 was pending; both were measured in one
\* pass and cycle 1 has committed its own, different, decoration set.
C4_Witness ==
    /\ measuring = << 1, 2 >>
    /\ committed = << 1 >>
    /\ cycles[2].pc = "read"
    /\ decorations = cycles[1].builder
    /\ cycles[1].builder # cycles[2].builder

\* C5: the measure phase of a cycle uses the state the cycle started with:
\* the indent-unit string its read callback tests and measures with is the
\* one of the state passed to generate, like its lines, map and configuration.
C5_MeasureUsesStartState ==
    \A i \in DOMAIN cycles :
        (Live(i) /\ cycles[i].pc # "pending") =>
            /\ cycles[i].indentUnitString = cycles[i].state.indentUnit
            /\ cycles[i].builder
                   = read(cycles[i], cycles[i].state.indentUnit, cycles[i].coords).builder

\* The host keeps running its measure loop: a queued request is eventually
\* taken, read and written.
FairSpec ==
    /\ Spec
    /\ WF_vars(MeasureStart)
    /\ WF_vars(Read(FALSE))
    /\ WF_vars(Write)

CycleIds == 1 .. (MaxUpdates + 1)

Committed(i) == \E k \in DOMAIN committed : committed[k] = i

\* C6: every cycle the constructor or a triggering update starts eventually
\* runs its read callback and then its write callback, exactly once each;
\* none is cancelled, dropped or merged with another, also when further
\* triggers arrive before it commits.
C6_EveryCycleCommitsOnce ==
    /\ \A i \in CycleIds : (Len(cycles) >= i) ~> Committed(i)
    /\ [][ /\ \A i \in DOMAIN cycles :
                /\ cycles'[i].pc # cycles[i].pc =>
                      \/ cycles[i].pc = "pending" /\ cycles'[i].pc = "read"
                      \/ cycles[i].pc = "read" /\ cycles'[i].pc = "committed"
                /\ (cycles[i].pc = "read" /\ cycles'[i].pc = "committed") <=>
                      (IsWrite /\ committed'[Len(committed')] = i)
           /\ IsWrite => committed' = Append(committed, committed'[Len(committed')])
           /\ \A k \in DOMAIN committed' : ~Committed(committed'[k]) =>
                  k = Len(committed') ]_vars

\* Three cycles were pending together and taken by one measure pass; the
\* first two have committed and the third, already read, is about to.
C6_Witness ==
    /\ measuring = << 1, 2, 3 >>
    /\ committed = << 1, 2 >>
    /\ cycles[3].pc = "read"

\* The positions request i has asked the host to measure.
Queried(i) == IF Live(i) THEN DOMAIN cycles[i].coords ELSE { }

\* C7: the read callback only reads layout and leaves the decoration set
\* alone; the write callback only installs the new decoration set: it asks
\* for no coordinate and has no other effect on the host.
C7_ReadOnlyReadsWriteOnlyWrites ==
    [][ /\ IsRead => decorations' = decorations
        /\ IsWrite =>
              /\ focused' = focused
              /\ state' = state
              /\ viewport' = viewport
              /\ measureRequests' = measureRequests
              /\ \A i \in DOMAIN cycles :
                     Live(i)' => Queried(i)' = Queried(i) ]_vars

\* C8 as stated: the memoized width, the memoized cursor line and the
\* decoration set change only in a write callback.
C8_SharedStateChangesOnlyInCommit ==
    [][ (\/ unitWidth' # unitWidth
         \/ currentLineNumber' # currentLineNumber
         \/ decorations' # decorations) => IsWrite ]_vars

\* C8, amended: the decoration set changes only in a write callback, which
\* leaves the two memoized scalars alone; the memoized scalars change only
\* in update, which leaves the decoration set alone; the read callback
\* changes none of the three.
C8_DecorationsInCommitMemoInUpdate ==
    [][ /\ decorations' # decorations => IsWrite
        /\ (unitWidth' # unitWidth \/ currentLineNumber' # currentLineNumber)
              => IsUpdate
        /\ IsWrite => (unitWidth' = unitWidth
                          /\ currentLineNumber' = currentLineNumber)
        /\ IsUpdate => decorations' = decorations ]_vars

\* An update has moved both memoized scalars while the decoration set a
\* commit installed stayed in place.
C8_Witness ==
    /\ committed # << >>
    /\ decorations # << >>
    /\ Live(committed[Len(committed)])
    /\ LET c == cycles[committed[Len(committed)]]
       IN  /\ unitWidth # getIndentUnit(c.state)
           /\ decorations = c.builder
    /\ currentLineNumber # 1

\* The lines of request c whose text does not start with the indent-unit
\* string u.
Mismatching(c, u) ==
    { k \in DOMAIN c.lines : ~startsWith(c.lines[k].text, u) }

DecoratedLines(set) == { set[k].number : k \in DOMAIN set }

\* C9: a visible line whose text does not start with the indent-unit string
\* configured when the cycle is measured is not measured and has no
\* decoration in the set the cycle commits, while every other line of the
\* cycle with a level of at least 1 is measured and decorated.
C9_MismatchingLineExcluded ==
    [][ /\ \A i \in DOMAIN cycles :
               IsReadOf(i) =>
                   LET c == cycles'[i]
                       bad == Mismatching(c, state.indentUnit)
                   IN  \A k \in DOMAIN c.lines :
                           LET n == c.lines[k].number
                           IN  IF k \in bad
                               THEN /\ n \notin Queried(i)'
                                    /\ n \notin DecoratedLines(c.builder)
                               ELSE c.map[n].level >= 1 =>
                                        /\ n \in Queried(i)'
                                        /\ n \in DecoratedLines(c.builder)
        /\ IsWrite =>
               decorations' = cycles[committed'[Len(committed')]].builder ]_vars

\* A committed cycle saw a tab-indented line of level 2 under a two-space
\* unit and left it out, and decorated the two-space line after it.
C9_Witness ==
    /\ committed # << >>
    /\ Live(committed[Len(committed)])
    /\ LET c == cycles[committed[Len(committed)]]
       IN  /\ c.indentUnitString = Space2
           /\ \E k \in DOMAIN c.lines :
                  /\ c.lines[k].text = << "t", "x" >>
                  /\ c.map[c.lines[k].number].level = 2
                  /\ c.lines[k].number \notin DecoratedLines(decorations)
           /\ \E k \in DOMAIN c.lines :
                  /\ c.lines[k].text = << "s", "s", "x" >>
                  /\ c.lines[k].number \in DecoratedLines(decorations)

\* The indentWidth the decoration of line n was composed with.
WidthOf(c, n) ==
    LET k == CHOOSE k \in DOMAIN c.builder : c.builder[k].number = n
    IN  c.builder[k].style[1].indentWidth

\* C10: when the host resolves the line-start coordinate, the coordinate
\* after one indent unit, or both, to nothing, the width measured for that
\* line is 0; the widths of the other lines are what the host resolved.
C10_UnresolvedWidthIsZero ==
    \A i \in DOMAIN cycles :
        (Live(i) /\ cycles[i].pc # "pending") =>
            \A n \in DOMAIN cycles[i].coords :
                LET c == cycles[i]
                    xy == c.coords[n]
                IN  IF xy.after.resolved /\ xy.start.resolved
                    THEN WidthOf(c, n) = xy.after.left - xy.start.left
                    ELSE WidthOf(c, n) = 0

\* Neither coordinate of the line resolved: the layout was not ready.
NotReady(xy) == ~xy.after.resolved /\ ~xy.start.resolved

\* The lines of request c the read callback has to measure under the
\* indent-unit string u.
Eligible(c, u) ==
    { c.lines[k].number : k \in
        { k \in DOMAIN c.lines :
            /\ c.map[c.lines[k].number].level >= 1
            /\ startsWith(c.lines[k].text, u) } }

\* C11 as stated: a line whose coordinates did not resolve has no decoration
\* in the set its cycle commits.
C11_UnresolvedLineSkipped ==
    (committed # << >> /\ Live(committed[Len(committed)])) =>
        LET c == cycles[committed[Len(committed)]]
        IN  \A n \in DOMAIN c.coords :
                NotReady(c.coords[n]) => n \notin DecoratedLines(decorations)

\* C11, amended: a line whose coordinates do not resolve is not skipped; it
\* is decorated in the set its cycle commits, with width 0 when neither
\* coordinate resolved, and every cycle measures each of its eligible lines
\* afresh, so the line is measured again by the next cycle.
C11_UnresolvedLineDecoratedAndRemeasured ==
    [][ /\ \A i \in DOMAIN cycles :
               IsReadOf(i) =>
                   LET c == cycles'[i]
                   IN  /\ Queried(i)' = Eligible(c, state.indentUnit)
                       /\ \A n \in Queried(i)' :
                              /\ n \in DecoratedLines(c.builder)
                              /\ NotReady(c.coords[n]) => WidthOf(c, n) = 0
        /\ IsWrite =>
               decorations' = cycles[committed'[Len(committed')]].builder ]_vars

\* The first cycle committed a decoration of width 0 for a line the layout
\* could not resolve, and the next cycle has measured the same line again,
\* this time resolved.
C11_Witness ==
    /\ committed = << 1 >>
    /\ Len(cycles) = 2
    /\ cycles[2].pc = "read"
    /\ \E n \in DOMAIN cycles[1].coords \cap DOMAIN cycles[2].coords :
           /\ NotReady(cycles[1].coords[n])
           /\ n \in DecoratedLines(decorations)
           /\ decorations = cycles[1].builder
           /\ WidthOf(cycles[1], n) = 0
           /\ cycles[2].coords[n] = Resolved
           /\ WidthOf(cycles[2], n) = 16

\* C12: without an active marker makeBackgroundCSS emits exactly one normal
\* layer, at column startAt with level - startAt columns, and no layer at
\* all when level - startAt <= 0 (level 0 with either value of
\* hideFirstIndent, level 1 with hideFirstIndent).
C12_NoActiveOneLayerOrEmpty ==
    (cssOut.done /\ "active" \notin DOMAIN entryIn.entry) =>
        IF entryIn.entry.level - StartAt <= 0
        THEN cssOut.css = << >>
        ELSE /\ Len(cssOut.css) = 1
             /\ cssOut.css[1].color = NormalColor
             /\ cssOut.css[1].startOffset = StartAt
             /\ cssOut.css[1].columns = entryIn.entry.level - StartAt

\* The place of line n in the visible-line sequence of request c.
PositionOf(c, n) == CHOOSE k \in DOMAIN c.lines : c.lines[k].number = n

\* C13: in the decoration set a cycle commits, a line is decorated if and
\* only if it is one of the cycle's visible lines, has a level-map entry of
\* level at least 1 and starts with the indent-unit string; it carries one
\* decoration, at its own start, and the decorations follow the order of the
\* visible lines.  So no level-0 line is decorated and makeBackgroundCSS is
\* never given level 0.
C13_DecoratedIffEligibleInOrder ==
    [][ /\ \A i \in DOMAIN cycles :
               IsReadOf(i) =>
                   LET c == cycles'[i]
                       b == c.builder
                   IN  /\ \A n \in DOMAIN c.state.doc :
                              n \in DecoratedLines(b) <=>
                                  \E k \in DOMAIN c.lines :
                                      /\ c.lines[k].number = n
                                      /\ n \in DOMAIN c.map
                                      /\ c.map[n].level >= 1
                                      /\ startsWith(c.lines[k].text, state.indentUnit)
                       /\ \A j, k \in DOMAIN b :
                              j < k => PositionOf(c, b[j].number)
                                           < PositionOf(c, b[k].number)
                       /\ \A k \in DOMAIN b :
                              /\ b[k].from = c.lines[PositionOf(c, b[k].number)].from
                              /\ c.map[b[k].number].level # 0
        /\ IsWrite =>
               decorations' = cycles[committed'[Len(committed')]].builder ]_vars

\* A cycle that does not hide the first indent has committed: its level-0
\* line carries no decoration and its two deeper lines carry one each, in
\* line order.
C13_Witness ==
    /\ committed # << >>
    /\ Live(committed[Len(committed)])
    /\ LET c == cycles[committed[Len(committed)]]
       IN  /\ ~c.hideFirstIndent
           /\ Len(c.lines) = 3
           /\ c.map[1].level = 0
           /\ decorations = c.builder
           /\ Len(decorations) = 2
           /\ decorations[1].number = 2
           /\ decorations[2].number = 3

\* C14: after the constructor and after every update, regenerating or not,
\* the memoized width is the indent-unit width of the latest state and the
\* memoized cursor line is its cursor line; every cycle's level map was
\* built with the indent-unit width of the state passed to generate.
C14_MemoFollowsLatestState ==
    /\ unitWidth = getIndentUnit(state)
    /\ currentLineNumber = getCurrentLine(state).number
    /\ \A i \in DOMAIN cycles :
           Live(i) =>
               cycles[i].map = IndentationMap(cycles[i].lines, cycles[i].state,
                                              getIndentUnit(cycles[i].state))

\* Highlighting was switched off and then the cursor moved: neither update
\* regenerated, and the memoized cursor line followed the cursor away from
\* the line the only cycle was built for.
C14_Witness ==
    /\ nUpdates = 2
    /\ Len(cycles) = 1
    /\ ~state.highlightActiveBlock
    /\ currentLineNumber = 3
    /\ Live(1)
    /\ cycles[1].state.cursor = 1

\* The same plugin on a view created with highlightActiveBlock: false.
InitConfig ==
    /\ state \in { s \in EditorStates :
                     /\ s.indentUnit = Space2
                     /\ s.cursor = 1
                     /\ ~s.highlightActiveBlock
                     /\ ~s.hideFirstIndent
                     /\ s.thickness = 1 }
    /\ viewport = << 1, 3 >>
    /\ focused = FALSE
    /\ unitWidth = getIndentUnit(state)
    /\ currentLineNumber = getCurrentLine(state).number
    /\ decorations = << >>
    /\ cycles = << generate(state, viewport, unitWidth) >>
    /\ measureRequests = requestMeasure(<< >>, 1)
    /\ measuring = << >>
    /\ phase = "idle"
    /\ committed = << >>
    /\ nUpdates = 0
    /\ entryIn = << >>
    /\ cssOut = << >>

SpecConfig == InitConfig /\ [][Next]_vars

\* C15: an update that changes only the extension's configuration, with
\* none of the four trigger conditions holding, starts no cycle and leaves
\* the decoration set unchanged; a cursor move seen while
\* highlightActiveBlock is off still advances the memoized cursor line, so
\* an update that only switches highlightActiveBlock on starts no cycle.
C15_ConfigChangeDoesNotRegenerate ==
    [][ IsUpdate =>
          /\ ( /\ state'.doc = state.doc
               /\ state'.indentUnit = state.indentUnit
               /\ state'.cursor = state.cursor
               /\ viewport' = viewport
               /\ getIndentUnit(state') = unitWidth
               /\ ~( /\ state'.highlightActiveBlock
                     /\ getCurrentLine(state').number # currentLineNumber ) )
             => /\ cycles' = cycles
                /\ measureRequests' = measureRequests
                /\ decorations' = decorations
          /\ ~state'.highlightActiveBlock
             => currentLineNumber' = getCurrentLine(state').number
          /\ ( /\ ~state.highlightActiveBlock
               /\ state' = [ state EXCEPT !.highlightActiveBlock = TRUE ]
               /\ viewport' = viewport )
             => /\ cycles' = cycles
                /\ measureRequests' = measureRequests
                /\ decorations' = decorations ]_vars

\* With highlighting off the cursor moved onto an indented line, then
\* highlighting was switched on: no cycle started, and the committed
\* decorations, built for the first state, show no active marker.
C15_Witness ==
    /\ nUpdates = 2
    /\ Len(cycles) = 1
    /\ committed = << 1 >>
    /\ measureRequests = << >>
    /\ state.highlightActiveBlock
    /\ ~cycles[1].state.highlightActiveBlock
    /\ cycles[1].state.cursor = 1
    /\ currentLineNumber = state.cursor
    /\ LevelOf(state.doc[state.cursor], unitWidth) >= 1
    /\ decorations = cycles[1].builder
    /\ decorations # << >>
    /\ \A k \in DOMAIN decorations :
           \A l \in DOMAIN decorations[k].style :
               decorations[k].style[l].color = NormalColor

\* No measure request is queued or running and every cycle has committed.
Quiescent ==
    /\ measureRequests = << >>
    /\ measuring = << >>
    /\ phase = "idle"
    /\ \A i \in DOMAIN cycles : cycles[i].pc = "committed"

\* C16: the update the commit's view.focus() can cause changes neither
\* document, viewport, indent width nor cursor line and starts no cycle, and
\* a commit itself requests no measure; cycles are started only by
\* triggering updates, one each; so the system comes to rest with no
\* pending request, having committed once per cycle: once for the
\* constructor and once per triggering update.
C16_NoCommitFeedbackLoop ==
    /\ [][ /\ (IsUpdate /\ state' = state /\ viewport' = viewport) =>
                  /\ cycles' = cycles
                  /\ measureRequests' = measureRequests
           /\ IsWrite =>
                  /\ Len(cycles') = Len(cycles)
                  /\ measureRequests' = measureRequests
           /\ Len(cycles') # Len(cycles) =>
                  /\ IsUpdate
                  /\ Len(cycles') = Len(cycles) + 1
                  /\ \/ state'.doc # state.doc
                     \/ viewport' # viewport
                     \/ getIndentUnit(state') # unitWidth
                     \/ (state'.highlightActiveBlock
                             /\ getCurrentLine(state').number # currentLineNumber) ]_vars
    /\ <>[]Quiescent
    /\ [](Quiescent => (Len(committed) = Len(cycles)
                           /\ \A i \in DOMAIN cycles : Committed(i)))

\* The editor has the focus from a commit, one of two updates triggered
\* and the other did not, and the system is at rest after two commits.
C16_Witness ==
    /\ Quiescent
    /\ focused
    /\ nUpdates = 2
    /\ Len(cycles) = 2
    /\ Len(committed) = 2
    /\ state = cycles[2].state
====
